---- MODULE Spec2Model ----
(***************************************************************************)
(* Blog platform REST backend: posts, threaded comments, likes.            *)
(*                                                                         *)
(* The repository holds two blog controllers.  The routes file             *)
(* (src/routes/blogs.js:3-14) imports its handlers BY NAME from            *)
(* controllers/blogController.js.  The handlers that are exported by name  *)
(* are the plain ones (src/controllers/commentController.js:326-491); the  *)
(* visibility-aware ones (src/middlewares/blogController.js) are exported  *)
(* only as one default object.  Both families are modelled: the            *)
(* visibility-aware handler keeps the source's name, the plain one carries *)
(* the suffix _alt.  One application serves the post routes with one of    *)
(* the two: mounted names it, and no behaviour mixes them.                 *)
(*                                                                         *)
(* A request is one action, except the handlers whose read and write are   *)
(* separated by an await and whose interleaving matters (toggleLike,       *)
(* deleteBlog, createComment): these run in a slot of reqs, one step per   *)
(* database call.                                                          *)
(***************************************************************************)
EXTENDS Integers, Sequences, FiniteSets, TLC

\* ------------------------------------------------------------------ bounds
MaxViews == 2
MaxClock == 2
MaxLikes == 2

\* ------------------------------------------------------------ universes
Users == {"alice", "bob", "root"}
Anon == "anon"
\* The ids the store hands to accounts that register.
NewUserSeq == <<"u4", "u5">>
NewUsers == {NewUserSeq[i] : i \in DOMAIN NewUserSeq}
AccountIds == Users \cup NewUsers
BlogSeq == <<"b1", "b2">>
BlogIds == {BlogSeq[i] : i \in DOMAIN BlogSeq}
CommentSeq == <<"c1", "c2", "c3">>
CommentIds == {CommentSeq[i] : i \in DOMAIN CommentSeq}
Slots == {1, 2}
Controllers == {"aware", "plain"}
Titles == {"t1", "t2"}
Categories == {"technology", "travel"}
NoId == "none"
Auto == "auto"
Tombstone == "[Comment deleted]"

VARIABLES users, blogs, comments, reqs, resp, now, lastLike, mounted

vars == <<users, blogs, comments, reqs, resp, now, lastLike, mounted>>

\* --------------------------------------------------------------- records
\* bcrypt's hash and compare (User.js:89-97, 106-108): a secret is a
\* sequence, each hashing wraps it once more.
hash(secret) == <<"bcrypt">> \o secret

compare(candidate, digest) == digest = hash(candidate)

\* An account with the schema's defaults (src/models/User.js:6-80).
\* life: "new" (id never used), "live" (stored).
userSchema ==
  [life |-> "new", username |-> "", email |-> "", password |-> <<>>,
   role |-> "user", isActive |-> TRUE, lastLogin |-> 0]

\* The accounts present from the start: each has its id as username, a
\* lower-case email and the secret "p1"; root is the admin.
SeedUsers ==
  [u \in AccountIds |->
     IF u \in Users
     THEN [userSchema EXCEPT !.life = "live", !.username = u,
                             !.email = u \o "@x",
                             !.password = hash(<<"p1">>),
                             !.lastLogin = 1,
                             !.role = IF u = "root" THEN "admin" ELSE "user"]
     ELSE userSchema]

\* req.user.role === "admin" (blogController.js:20, 317, 374);
\* an anonymous request carries no req.user.
isAdmin(u) == u # Anon /\ users[u].role = "admin"

\* A post document with the schema's defaults (src/unnamed/part_004:3-104).
\* life: "new" (id never used), "live" (stored), "gone" (removed).
blogSchema ==
  [life |-> "new", title |-> "t1", category |-> "technology",
   author |-> NoId, status |-> "draft", isPublic |-> TRUE, views |-> 0,
   likes |-> <<>>, publishedAt |-> 0]

\* A comment document with the schema's defaults (part_004:184-248).
commentSchema ==
  [life |-> "new", content |-> "x", author |-> NoId, blog |-> NoId,
   parentComment |-> NoId, likes |-> <<>>, isEdited |-> FALSE,
   editedAt |-> 0, isDeleted |-> FALSE, deletedAt |-> 0]

\* One element of a likes array: the subdocument {user, likedAt} with its
\* own _id (part_004:75-86).  id is Auto when the store generated it.
LikeOf(u) == [user |-> u, id |-> Auto]

\* likes.push(userId) with a bare id (commentController.js:464): the document
\* array casts a non-object to a subdocument whose _id is that value; the
\* user path stays unset.
LikeCastFromId(u) == [user |-> NoId, id |-> u]

\* History for the claims about pairs of toggles: the caller and the post of
\* the last toggle that succeeded, and the number of likes the post had
\* before it; NoLast once any other request ran.
NoLast == [caller |-> Anon, id |-> NoId, before |-> 0]

\* The last response sent; every step overwrites it.
\* req.body of the account routes: fields names the keys present.
NoBody ==
  [fields |-> {}, username |-> "", email |-> "", password |-> <<>>,
   newPassword |-> <<>>]

NoResp ==
  [op |-> "none", status |-> 0, caller |-> Anon, id |-> NoId, data |-> {},
   liked |-> FALSE, count |-> 0, msg |-> "", body |-> NoBody]

Reply(op, status, caller, id) ==
  [NoResp EXCEPT !.op = op, !.status = status, !.caller = caller, !.id = id]

IdleReq ==
  [op |-> "none", pc |-> "idle", caller |-> Anon, id |-> NoId,
   likes |-> <<>>, dirty |-> FALSE, parent |-> NoId, content |-> "",
   body |-> NoBody]

Quiet == \A s \in Slots : reqs[s].pc = "idle"

\* ----------------------------------------------------------- visibility
\* A test of the status alone.
isPublished_statusOnly(blog) == blog.status = "published"

\* blog.status !== "published" || !blog.isPublic, negated
\* (blogController.js:106, 314; commentController.js:16, 75, 106, 200, 233).
isPublished(blog) == blog.status = "published" /\ blog.isPublic

Live(b) == blogs[b].life = "live"

LiveBlogs == {b \in BlogIds : Live(b)}

\* A test that lets the author alone through.
ownerOrAdmin_authorOnly(caller, blog) == caller = blog.author

\* The ownership test of the handlers (blogController.js:374, 403;
\* commentController.js:147, 175).
ownerOrAdmin(caller, blog) == caller = blog.author \/ isAdmin(caller)

\* ------------------------------------------------------- request bodies
\* req.body of a post create or update: fields names the keys present.
\* express-validator checks the keys it knows and strips none, and the
\* handlers hand req.body to the store whole (blogController.js:351, 382).
EmptyBody ==
  [fields |-> {}, title |-> "t1", category |-> "technology",
   status |-> "draft", isPublic |-> TRUE, author |-> NoId,
   publishedAt |-> 0, views |-> 0]

\* validateBlogCreate (src/unnamed/part_002:147-193): title and category are
\* required, status is draft or published, isPublic a boolean.
CreateBodies ==
  { [EmptyBody EXCEPT !.fields = {"title", "category"}, !.title = t] :
      t \in Titles }
    \cup
  { [EmptyBody EXCEPT !.fields = {"title", "category", "status"},
                      !.title = t, !.status = s] :
      t \in Titles, s \in {"draft", "published"} }
    \cup
  { [EmptyBody EXCEPT !.fields = {"title", "category", "status", "isPublic"},
                      !.status = s, !.isPublic = p] :
      s \in {"draft", "published"}, p \in BOOLEAN }

\* The bodies that touch nothing but the visibility of a post.
VisibilityBodies ==
  { [EmptyBody EXCEPT !.fields = {"status"}, !.status = s] :
      s \in {"draft", "published"} }
    \cup
  { [EmptyBody EXCEPT !.fields = {"isPublic"}, !.isPublic = p] :
      p \in BOOLEAN }

PublishedBodies ==
  { [EmptyBody EXCEPT !.fields = {"title", "category", "status"},
                      !.status = "published"] }

\* validateBlogUpdate (part_002:195-245): every key optional, status is
\* draft or published; keys it does not name pass through.
UpdateBodies ==
  { [EmptyBody EXCEPT !.fields = {"title"}, !.title = t] : t \in Titles }
    \cup
  { [EmptyBody EXCEPT !.fields = {"status"}, !.status = s] :
      s \in {"draft", "published"} }
    \cup
  { [EmptyBody EXCEPT !.fields = {"isPublic"}, !.isPublic = p] :
      p \in BOOLEAN }
    \cup
  { [EmptyBody EXCEPT !.fields = {"author"}, !.author = a] : a \in Users }
    \cup
  { [EmptyBody EXCEPT !.fields = {"publishedAt"}, !.publishedAt = t] :
      t \in 0..MaxClock }
    \cup
  { [EmptyBody EXCEPT !.fields = {"views"}, !.views = 0] }
    \cup
  { [EmptyBody EXCEPT !.fields = {"title", "status"}, !.title = t,
                      !.status = "published"] : t \in Titles }

\* The $set of the keys present (Blog.create, findByIdAndUpdate).
ApplyBody(doc, body) ==
  [doc EXCEPT
     !.title = IF "title" \in body.fields THEN body.title ELSE @,
     !.category = IF "category" \in body.fields THEN body.category ELSE @,
     !.status = IF "status" \in body.fields THEN body.status ELSE @,
     !.isPublic = IF "isPublic" \in body.fields THEN body.isPublic ELSE @,
     !.author = IF "author" \in body.fields THEN body.author ELSE @,
     !.publishedAt =
        IF "publishedAt" \in body.fields THEN body.publishedAt ELSE @,
     !.views = IF "views" \in body.fields THEN body.views ELSE @]

\* blogSchema.pre("save") (part_004:127-138); statusModified is
\* this.isModified("status").
preSaveBlog(doc, statusModified) ==
  IF statusModified /\ doc.status = "published" /\ doc.publishedAt = 0
  THEN [doc EXCEPT !.publishedAt = now]
  ELSE doc

\* The store hands out ids it never used before; the lowest is taken.
FreshBlog(b) ==
  \E i \in DOMAIN BlogSeq :
     /\ BlogSeq[i] = b
     /\ blogs[b].life = "new"
     /\ \A j \in 1..(i - 1) : blogs[BlogSeq[j]].life # "new"

FreshComment(c) ==
  \E i \in DOMAIN CommentSeq :
     /\ CommentSeq[i] = c
     /\ comments[c].life = "new"
     /\ \A j \in 1..(i - 1) : comments[CommentSeq[j]].life # "new"

\* The route's checkOwnership(Model) middleware (routes/blogs.js:74, 83;
\* routes/comments.js:38, 46): the caller owns the document or is an admin.
checkOwnership(caller, doc) == caller = doc.author \/ isAdmin(caller)

\* ------------------------------------------------------------ the clock
Tick ==
  /\ now < MaxClock
  /\ now' = now + 1
  /\ resp' = NoResp
  /\ UNCHANGED <<users, blogs, comments, reqs>>

\* --------------------------------------------------------- post: create
\* createBlog (blogController.js:349-362): the caller becomes the author,
\* Blog.create saves the document, so the pre-save hook runs.  ids are the
\* post ids the specification at hand lets the store hand out.
createBlogAs(op, u, body, ids) ==
  /\ u \in Users
  /\ \E b \in ids :
       /\ FreshBlog(b)
       /\ blogs' =
            [blogs EXCEPT
               ![b] = preSaveBlog(
                        ApplyBody([blogSchema EXCEPT !.life = "live",
                                                     !.author = u], body),
                        "status" \in body.fields)]
       /\ resp' = Reply(op, 201, u, b)
  /\ UNCHANGED <<users, comments, reqs, now>>

createBlog(u, body, ids) == createBlogAs("createBlog", u, body, ids)

\* createBlog of the plain controller (commentController.js:411-415).
createBlog_alt(u, body, ids) == createBlogAs("createBlog_alt", u, body, ids)

\* ----------------------------------------------------------- post: read
\* blog.isLikedBy / the findIndex of toggleLike (part_004:141-149) call
\* like.user.toString(): an element whose user path is unset makes them
\* throw before a later element is looked at.
FirstLikeOf(likes, u) ==
  IF \E i \in DOMAIN likes : likes[i].user = u
  THEN CHOOSE i \in DOMAIN likes :
         /\ likes[i].user = u
         /\ \A j \in 1..(i - 1) : likes[j].user # u
  ELSE 0

LikeScanThrows(likes, u) ==
  \E i \in DOMAIN likes :
     /\ likes[i].user = NoId
     /\ \A j \in 1..(i - 1) : likes[j].user # u

\* getBlog (blogController.js:298-344).
getBlog(u, b) ==
  LET blog == blogs[b]
      found == Live(b) /\ (u = Anon => isPublished(blog))
      denied == ~isPublished(blog) /\ (u = Anon \/ ~ownerOrAdmin(u, blog))
      counts == blog.status = "published" /\ (u = Anon \/ u # blog.author)
  IN
  /\ u \in Users \cup {Anon}
  /\ IF ~found
     THEN /\ resp' = Reply("getBlog", 404, u, b)
          /\ UNCHANGED blogs
     ELSE IF denied
     THEN /\ resp' = Reply("getBlog", 403, u, b)
          /\ UNCHANGED blogs
     ELSE /\ counts => blog.views < MaxViews
          /\ blogs' = IF counts
                      THEN [blogs EXCEPT ![b].views = @ + 1]
                      ELSE blogs
          /\ resp' =
               IF u # Anon /\ LikeScanThrows(blog.likes, u)
               THEN Reply("getBlog", 500, u, b)
               ELSE [Reply("getBlog", 200, u, b) EXCEPT
                       !.data = {b},
                       !.count = Len(blog.likes),
                       !.liked = u # Anon /\ FirstLikeOf(blog.likes, u) # 0]
  /\ UNCHANGED <<users, comments, reqs, now>>

\* getBlog of the plain controller (commentController.js:366-372).
getBlog_alt(u, b) ==
  /\ u \in Users \cup {Anon}
  /\ resp' = IF Live(b)
             THEN [Reply("getBlog_alt", 200, u, b) EXCEPT
                     !.data = {b}, !.count = Len(blogs[b].likes)]
             ELSE Reply("getBlog_alt", 404, u, b)
  /\ UNCHANGED <<users, blogs, comments, reqs, now>>

\* ---------------------------------------------------------- post: lists
\* req.query of a listing: fields names the keys present.
EmptyQuery ==
  [fields |-> {}, search |-> "t1", category |-> "technology",
   author |-> NoId, status |-> "draft"]

Queries ==
  {EmptyQuery}
    \cup
  { [EmptyQuery EXCEPT !.fields = {"search"}, !.search = t] : t \in Titles }
    \cup
  { [EmptyQuery EXCEPT !.fields = {"category"}, !.category = c] :
      c \in Categories }
    \cup
  { [EmptyQuery EXCEPT !.fields = {"author"}, !.author = a] : a \in Users }
    \cup
  { [EmptyQuery EXCEPT !.fields = {"status"}, !.status = st] :
      st \in {"draft", "published"} }
    \cup
  { [EmptyQuery EXCEPT !.fields = {"status", "author"}, !.status = "draft",
                       !.author = a] : a \in Users }

\* The three optional filters both listings share (blogController.js:24-37;
\* commentController.js:341-343).  The text index covers the title.
matchFilters(blog, q) ==
  /\ "search" \in q.fields => blog.title = q.search
  /\ "category" \in q.fields => blog.category = q.category
  /\ "author" \in q.fields => blog.author = q.author

\* The query of getBlogs (blogController.js:14-42).  A listing answers one
\* page of the matching documents; data holds all that match.
getBlogsQuery(u, blog, q) ==
  /\ IF isAdmin(u)
     THEN "status" \in q.fields => blog.status = q.status
     ELSE isPublished(blog)
  /\ matchFilters(blog, q)

\* getBlogs (blogController.js:9-94).
getBlogs(u, q) ==
  /\ u \in Users \cup {Anon}
  /\ resp' = [Reply("getBlogs", 200, u, NoId) EXCEPT
                !.data = {b \in LiveBlogs : getBlogsQuery(u, blogs[b], q)}]
  /\ UNCHANGED <<users, blogs, comments, reqs, now>>

\* getBlogs of the plain controller (commentController.js:334-361).
getBlogs_alt(u, q) ==
  /\ u \in Users \cup {Anon}
  /\ resp' = [Reply("getBlogs_alt", 200, u, NoId) EXCEPT
                !.data = {b \in LiveBlogs : matchFilters(blogs[b], q)}]
  /\ UNCHANGED <<users, blogs, comments, reqs, now>>

\* getBlogsByCategory (blogController.js:145-183); the route has no auth
\* middleware (routes/blogs.js:40), so the caller is anonymous.
getBlogsByCategory(c) ==
  /\ resp' = [Reply("getBlogsByCategory", 200, Anon, NoId) EXCEPT
                !.data = {b \in LiveBlogs :
                            /\ blogs[b].category = c
                            /\ isPublished(blogs[b])}]
  /\ UNCHANGED <<users, blogs, comments, reqs, now>>

\* getBlogsByCategory of the plain controller (commentController.js:386-392).
getBlogsByCategory_alt(c) ==
  /\ resp' = [Reply("getBlogsByCategory_alt", 200, Anon, NoId) EXCEPT
                !.data = {b \in LiveBlogs : blogs[b].category = c}]
  /\ UNCHANGED <<users, blogs, comments, reqs, now>>

\* searchBlogs (blogController.js:188-232); q is required.
searchBlogs(t) ==
  /\ resp' = [Reply("searchBlogs", 200, Anon, NoId) EXCEPT
                !.data = {b \in LiveBlogs :
                            /\ blogs[b].title = t
                            /\ isPublished(blogs[b])}]
  /\ UNCHANGED <<users, blogs, comments, reqs, now>>

\* searchBlogs of the plain controller (commentController.js:397-406).
searchBlogs_alt(t) ==
  /\ resp' = [Reply("searchBlogs_alt", 200, Anon, NoId) EXCEPT
                !.data = {b \in LiveBlogs : blogs[b].title = t}]
  /\ UNCHANGED <<users, blogs, comments, reqs, now>>

\* Blog.getPopular (part_004:161-178), served by getPopularBlogs of either
\* controller (blogController.js:126-140; commentController.js:377-381).
getPopularBlogs ==
  /\ resp' = [Reply("getPopularBlogs", 200, Anon, NoId) EXCEPT
                !.data = {b \in LiveBlogs : isPublished(blogs[b])}]
  /\ UNCHANGED <<users, blogs, comments, reqs, now>>

\* getUserBlogs (userController.js:251-295).
getUserBlogs(u, id, q) ==
  /\ u \in Users \cup {Anon}
  /\ id \in Users
  /\ resp' =
       IF ~users[id].isActive
       THEN Reply("getUserBlogs", 404, u, id)
       ELSE [Reply("getUserBlogs", 200, u, id) EXCEPT
               !.data =
                  {b \in LiveBlogs :
                     /\ blogs[b].author = id
                     /\ (u = id \/ isAdmin(u)) \/ isPublished(blogs[b])
                     /\ "category" \in q.fields =>
                          blogs[b].category = q.category}]
  /\ UNCHANGED <<users, blogs, comments, reqs, now>>

\* getMyBlogs (blogController.js:237-293; commentController.js:476-481).
getMyBlogs(u) ==
  /\ u \in Users
  /\ resp' = [Reply("getMyBlogs", 200, u, NoId) EXCEPT
                !.data = {b \in LiveBlogs : blogs[b].author = u}]
  /\ UNCHANGED <<users, blogs, comments, reqs, now>>

\* --------------------------------------------------------- post: update
\* updateBlog (blogController.js:367-391) behind the route's checkOwnership.
\* findByIdAndUpdate writes the body's keys; it runs no save hook.
updateBlog(u, b, body) ==
  LET blog == blogs[b]
      kept == IF "author" \in body.fields /\ ~isAdmin(u)
              THEN [body EXCEPT !.fields = @ \ {"author"}]
              ELSE body
  IN
  /\ u \in Users
  /\ IF ~Live(b)
     THEN /\ resp' = Reply("updateBlog", 404, u, b)
          /\ UNCHANGED blogs
     ELSE IF ~checkOwnership(u, blog) \/ ~ownerOrAdmin(u, blog)
     THEN /\ resp' = Reply("updateBlog", 403, u, b)
          /\ UNCHANGED blogs
     ELSE /\ blogs' = [blogs EXCEPT ![b] = ApplyBody(blog, kept)]
          /\ resp' = [Reply("updateBlog", 200, u, b) EXCEPT !.data = {b}]
  /\ UNCHANGED <<users, comments, reqs, now>>

\* updateBlog of the plain controller (commentController.js:420-433) behind
\* the same route: only the author passes its own test, with 401 otherwise.
updateBlog_alt(u, b, body) ==
  LET blog == blogs[b] IN
  /\ u \in Users
  /\ IF ~Live(b)
     THEN /\ resp' = Reply("updateBlog_alt", 404, u, b)
          /\ UNCHANGED blogs
     ELSE IF ~checkOwnership(u, blog)
     THEN /\ resp' = Reply("updateBlog_alt", 403, u, b)
          /\ UNCHANGED blogs
     ELSE IF blog.author # u
     THEN /\ resp' = Reply("updateBlog_alt", 401, u, b)
          /\ UNCHANGED blogs
     ELSE /\ blogs' = [blogs EXCEPT ![b] = ApplyBody(blog, body)]
          /\ resp' = [Reply("updateBlog_alt", 200, u, b) EXCEPT !.data = {b}]
  /\ UNCHANGED <<users, comments, reqs, now>>

\* --------------------------------------------------------- post: delete
GoneBlog == [blogSchema EXCEPT !.life = "gone"]

\* A removed comment keeps its last fields in the model, for the record.
GoneComment(comment) == [comment EXCEPT !.life = "gone"]

\* A cascade that reaches the top-level comments only.
deleteManyFilter_toplevel(comment, b) ==
  comment.life = "live" /\ comment.blog = b /\ comment.parentComment = NoId

\* The filter of Comment.deleteMany({ blog: id }) (blogController.js:407;
\* commentController.js:445).
deleteManyFilter(comment, b) == comment.life = "live" /\ comment.blog = b

\* deleteBlog (blogController.js:396-405) up to its first write, behind the
\* route's checkOwnership.
deleteBlog(s, u, b) ==
  /\ u \in Users
  /\ reqs[s].pc = "idle"
  /\ IF ~Live(b)
     THEN /\ resp' = Reply("deleteBlog", 404, u, b)
          /\ UNCHANGED reqs
     ELSE IF ~checkOwnership(u, blogs[b]) \/ ~ownerOrAdmin(u, blogs[b])
     THEN /\ resp' = Reply("deleteBlog", 403, u, b)
          /\ UNCHANGED reqs
     ELSE /\ resp' = NoResp
          /\ reqs' = [reqs EXCEPT ![s] =
                        [IdleReq EXCEPT !.op = "deleteBlog",
                                        !.pc = "deleteMany",
                                        !.caller = u, !.id = b]]
  /\ UNCHANGED <<users, blogs, comments, now>>

\* deleteBlog of the plain controller (commentController.js:438-443).
deleteBlog_alt(s, u, b) ==
  /\ u \in Users
  /\ reqs[s].pc = "idle"
  /\ IF ~Live(b)
     THEN /\ resp' = Reply("deleteBlog_alt", 404, u, b)
          /\ UNCHANGED reqs
     ELSE IF ~checkOwnership(u, blogs[b])
     THEN /\ resp' = Reply("deleteBlog_alt", 403, u, b)
          /\ UNCHANGED reqs
     ELSE IF blogs[b].author # u
     THEN /\ resp' = Reply("deleteBlog_alt", 401, u, b)
          /\ UNCHANGED reqs
     ELSE /\ resp' = NoResp
          /\ reqs' = [reqs EXCEPT ![s] =
                        [IdleReq EXCEPT !.op = "deleteBlog_alt",
                                        !.pc = "deleteMany",
                                        !.caller = u, !.id = b]]
  /\ UNCHANGED <<users, blogs, comments, now>>

\* await Comment.deleteMany({ blog: req.params.id }).
deleteMany(s) ==
  /\ reqs[s].pc = "deleteMany"
  /\ comments' = [c \in CommentIds |->
                    IF deleteManyFilter(comments[c], reqs[s].id)
                    THEN GoneComment(comments[c])
                    ELSE comments[c]]
  /\ reqs' = [reqs EXCEPT ![s].pc = "deleteOne"]
  /\ resp' = NoResp
  /\ UNCHANGED <<users, blogs, now>>

\* await blog.deleteOne(), then the response.
deleteOne(s) ==
  /\ reqs[s].pc = "deleteOne"
  /\ blogs' = [blogs EXCEPT ![reqs[s].id] = GoneBlog]
  /\ resp' = Reply(reqs[s].op, 200, reqs[s].caller, reqs[s].id)
  /\ reqs' = [reqs EXCEPT ![s] = IdleReq]
  /\ UNCHANGED <<users, comments, now>>

\* ----------------------------------------------------------- post: like
\* The model keeps at most MaxLikes elements in a likes array: a toggle that
\* would add one starts only while there is room.
HasRoom(likes, u) == Len(likes) < MaxLikes \/ FirstLikeOf(likes, u) > 0

\* toggleLikeBlog (blogController.js:99-108) up to the document it loads.
toggleLikeBlog(s, u, b) ==
  /\ u \in Users
  /\ reqs[s].pc = "idle"
  /\ IF ~Live(b)
     THEN /\ resp' = Reply("toggleLikeBlog", 404, u, b)
          /\ UNCHANGED reqs
     ELSE IF ~isPublished(blogs[b])
     THEN /\ resp' = Reply("toggleLikeBlog", 400, u, b)
          /\ UNCHANGED reqs
     ELSE /\ HasRoom(blogs[b].likes, u)
          /\ resp' = NoResp
          /\ reqs' = [reqs EXCEPT ![s] =
                        [IdleReq EXCEPT !.op = "toggleLikeBlog",
                                        !.pc = "save", !.caller = u,
                                        !.id = b, !.likes = blogs[b].likes]]
  /\ UNCHANGED <<users, blogs, comments, now>>

\* toggleLikeBlog of the plain controller (commentController.js:454-456).
toggleLikeBlog_alt(s, u, b) ==
  /\ u \in Users
  /\ reqs[s].pc = "idle"
  /\ IF ~Live(b)
     THEN /\ resp' = Reply("toggleLikeBlog_alt", 404, u, b)
          /\ UNCHANGED reqs
     ELSE /\ Len(blogs[b].likes) < MaxLikes
          /\ resp' = NoResp
          /\ reqs' = [reqs EXCEPT ![s] =
                        [IdleReq EXCEPT !.op = "toggleLikeBlog_alt",
                                        !.pc = "save", !.caller = u,
                                        !.id = b, !.likes = blogs[b].likes]]
  /\ UNCHANGED <<users, blogs, comments, now>>

\* blog.likes.includes(userId) (commentController.js:459): the elements are
\* like subdocuments, the argument is an id, and no element equals it.
likesIncludesId(likes, u) == \E i \in DOMAIN likes : likes[i] = [id |-> u]

RemoveAt(seq, i) ==
  [j \in 1..(Len(seq) - 1) |-> IF j < i THEN seq[j] ELSE seq[j + 1]]

\* Another request's save of the same document's likes bumps its version.
MarkDirty(s, kind, id) ==
  [t \in Slots |->
     IF t = s THEN IdleReq
     ELSE IF reqs[t].pc = "save" /\ reqs[t].id = id
             /\ (reqs[t].op = "toggleLikeComment") = (kind = "comment")
     THEN [reqs[t] EXCEPT !.dirty = TRUE]
     ELSE reqs[t]]

\* The stored likes array after doc.save() of a document loaded with likes
\* `loaded`: a push is sent as an append to the stored array; a splice is
\* sent as the whole array and is refused when the version moved.
\* blogSchema.methods.toggleLike / commentSchema.methods.toggleLike
\* (part_004:146-158, 285-297).
toggleLike(loaded, u) ==
  LET i == FirstLikeOf(loaded, u) IN
  IF i > 0 THEN [liked |-> FALSE, likes |-> RemoveAt(loaded, i)]
  ELSE [liked |-> TRUE, likes |-> Append(loaded, LikeOf(u))]

\* The plain controller's toggle (commentController.js:458-465).
toggleLike_alt(loaded, u) ==
  IF likesIncludesId(loaded, u)
  THEN [liked |-> FALSE,
        likes |-> SelectSeq(loaded, LAMBDA e : e.id # u)]
  ELSE [liked |-> TRUE, likes |-> Append(loaded, LikeCastFromId(u))]

\* toggle + await doc.save() + the response, for posts and comments
\* (blogController.js:110-120; commentController.js:204-214, 458-470).
saveLike(s) ==
  LET r == reqs[s]
      onComment == r.op = "toggleLikeComment"
      stored == IF onComment THEN comments[r.id] ELSE blogs[r.id]
      throws == r.op # "toggleLikeBlog_alt" /\ LikeScanThrows(r.likes, r.caller)
      t == IF r.op = "toggleLikeBlog_alt"
           THEN toggleLike_alt(r.likes, r.caller)
           ELSE toggleLike(r.likes, r.caller)
      pushed == Len(t.likes) > Len(r.likes)
      refused == stored.life # "live" \/ (~pushed /\ r.dirty)
      written == IF pushed
                 THEN Append(stored.likes, t.likes[Len(t.likes)])
                 ELSE t.likes
  IN
  /\ r.pc = "save"
  /\ IF throws \/ refused
     THEN /\ resp' = Reply(r.op, 500, r.caller, r.id)
          /\ reqs' = [reqs EXCEPT ![s] = IdleReq]
          /\ UNCHANGED <<blogs, comments>>
     ELSE /\ Len(written) <= MaxLikes
          /\ resp' = [Reply(r.op, 200, r.caller, r.id) EXCEPT
                        !.liked = t.liked, !.count = Len(t.likes)]
          /\ reqs' = MarkDirty(s, IF onComment THEN "comment" ELSE "blog", r.id)
          /\ IF onComment
             THEN /\ comments' = [comments EXCEPT ![r.id].likes = written]
                  /\ UNCHANGED blogs
             ELSE /\ blogs' = [blogs EXCEPT ![r.id].likes = written]
                  /\ UNCHANGED comments
  /\ UNCHANGED <<users, now>>

\* -------------------------------------------------------------- comments
LiveComment(c) == comments[c].life = "live"

\* A filter on the id alone.
findOneComment_anyRow(c) == LiveComment(c)

\* The filter { _id: id, isDeleted: false } of Comment.findOne
\* (commentController.js:64-67, 141-144, 169-172, 193-196, 225-228).
findOneComment(c) == LiveComment(c) /\ ~comments[c].isDeleted

\* commentSchema.pre("save") (part_004:270-277); contentModified is
\* this.isModified("content").
preSaveComment(doc, contentModified) ==
  IF contentModified
  THEN [doc EXCEPT !.isEdited = TRUE, !.editedAt = now]
  ELSE doc

\* A delete that sets the flag and leaves the body.
softDelete_flagOnly(doc) == [doc EXCEPT !.isDeleted = TRUE]

\* commentSchema.methods.softDelete (part_004:300-305): it assigns content
\* and saves, so the hook sees content modified.
softDelete(doc) ==
  preSaveComment([doc EXCEPT !.isDeleted = TRUE, !.deletedAt = now,
                             !.content = Tombstone],
                 TRUE)

\* A test that turns away none but the anonymous.
deniedOnPost_anon(u, blog) == ~isPublished(blog) /\ u = Anon

\* The readers' test on the comment's post (commentController.js:16-25,
\* 75-84, 233-240).
deniedOnPost(u, blog) ==
  ~isPublished(blog) /\ (u = Anon \/ ~ownerOrAdmin(u, blog))

\* getComments (commentController.js:9-58).
getComments(u, b) ==
  /\ u \in Users \cup {Anon}
  /\ resp' =
       IF ~Live(b) THEN Reply("getComments", 404, u, b)
       ELSE IF deniedOnPost(u, blogs[b]) THEN Reply("getComments", 403, u, b)
       ELSE [Reply("getComments", 200, u, b) EXCEPT
               !.data = {c \in CommentIds :
                           /\ LiveComment(c)
                           /\ comments[c].blog = b
                           /\ ~comments[c].isDeleted}]
  /\ UNCHANGED <<users, blogs, comments, reqs, now>>

\* getComment (commentController.js:63-97).  A comment whose post is gone
\* makes the handler read a field of null.
getComment(u, c) ==
  /\ u \in Users \cup {Anon}
  /\ resp' =
       IF ~findOneComment(c) THEN Reply("getComment", 404, u, c)
       ELSE IF ~Live(comments[c].blog) THEN Reply("getComment", 500, u, c)
       ELSE IF deniedOnPost(u, blogs[comments[c].blog])
       THEN Reply("getComment", 403, u, c)
       ELSE [Reply("getComment", 200, u, c) EXCEPT
               !.data = {c},
               !.count = Len(comments[c].likes),
               !.liked = u # Anon /\ FirstLikeOf(comments[c].likes, u) # 0]
  /\ UNCHANGED <<users, blogs, comments, reqs, now>>

\* getCommentReplies (commentController.js:220-270).
getCommentReplies(u, c) ==
  /\ u \in Users \cup {Anon}
  /\ resp' =
       IF ~findOneComment(c) THEN Reply("getCommentReplies", 404, u, c)
       ELSE IF ~Live(comments[c].blog)
       THEN Reply("getCommentReplies", 500, u, c)
       ELSE IF deniedOnPost(u, blogs[comments[c].blog])
       THEN Reply("getCommentReplies", 403, u, c)
       ELSE [Reply("getCommentReplies", 200, u, c) EXCEPT
               !.data = {d \in CommentIds :
                           /\ LiveComment(d)
                           /\ comments[d].parentComment = c
                           /\ ~comments[d].isDeleted}]
  /\ UNCHANGED <<users, blogs, comments, reqs, now>>

\* getUserComments (commentController.js:275-313) behind
\* router.get("/:id/comments") (routes/users.js:30).  The handler reads
\* req.params.userId, a parameter the route does not bind: the author filter
\* holds undefined, which the store either matches against no comment or
\* leaves out of the filter (dropped), and the caller never equals it.
getUserComments(u, id, dropped) ==
  LET userId == NoId
      relaxed == u # Anon /\ (u = userId \/ isAdmin(u))
  IN
  /\ u \in Users \cup {Anon}
  /\ id \in Users
  /\ resp' =
       [Reply("getUserComments", 200, u, id) EXCEPT
          !.data =
             {c \in CommentIds :
                /\ LiveComment(c)
                /\ ~comments[c].isDeleted
                /\ dropped \/ comments[c].author = userId
                /\ Live(comments[c].blog)
                /\ relaxed \/ isPublished(blogs[comments[c].blog])}]
  /\ UNCHANGED <<users, blogs, comments, reqs, now>>

\* createComment (commentController.js:102-108) up to its test of the post.
\* parent is req.body.parentComment, NoId when absent; ids are the comment
\* ids the specification at hand lets the store hand out.
createComment(s, u, b, parent, ids) ==
  /\ u \in Users
  /\ parent \in CommentIds \cup {NoId}
  /\ reqs[s].pc = "idle"
  /\ IF ~Live(b)
     THEN /\ resp' = Reply("createComment", 404, u, b)
          /\ UNCHANGED reqs
     ELSE IF ~isPublished(blogs[b])
     THEN /\ resp' = Reply("createComment", 400, u, b)
          /\ UNCHANGED reqs
     ELSE /\ \E c \in ids : comments[c].life = "new"
          /\ resp' = NoResp
          /\ reqs' = [reqs EXCEPT ![s] =
                        [IdleReq EXCEPT !.op = "createComment",
                                        !.pc = "findParent", !.caller = u,
                                        !.id = b, !.parent = parent]]
  /\ UNCHANGED <<users, blogs, comments, now>>

\* The lookup of the parent comment (commentController.js:110-118).
findParent(s) ==
  LET r == reqs[s]
      ok == \/ r.parent = NoId
            \/ /\ findOneComment(r.parent)
               /\ comments[r.parent].blog = r.id
  IN
  /\ r.pc = "findParent"
  /\ IF ok
     THEN /\ resp' = NoResp
          /\ reqs' = [reqs EXCEPT ![s].pc = "create"]
     ELSE /\ resp' = Reply("createComment", 404, r.caller, r.id)
          /\ reqs' = [reqs EXCEPT ![s] = IdleReq]
  /\ UNCHANGED <<users, blogs, comments, now>>

\* Comment.create and the response (commentController.js:120-134).
insertComment(s, ids) ==
  LET r == reqs[s] IN
  /\ r.pc = "create"
  /\ \E c \in ids :
       /\ FreshComment(c)
       /\ comments' =
            [comments EXCEPT
               ![c] = preSaveComment(
                        [commentSchema EXCEPT !.life = "live",
                                              !.author = r.caller,
                                              !.blog = r.id,
                                              !.parentComment = r.parent],
                        TRUE)]
       /\ resp' = [Reply("createComment", 201, r.caller, r.id) EXCEPT
                     !.data = {c}]
  /\ reqs' = [reqs EXCEPT ![s] = IdleReq]
  /\ UNCHANGED <<users, blogs, now>>

\* The values of req.body.content on an update; the route
\* (routes/comments.js:34-40) validates none, so the empty string arrives.
Contents == {"y", ""}

\* updateComment (commentController.js:140-151) behind the route's
\* checkOwnership, up to its write.
updateComment(s, u, c, content) ==
  /\ u \in Users
  /\ content \in Contents
  /\ reqs[s].pc = "idle"
  /\ IF ~findOneComment(c)
     THEN /\ resp' = Reply("updateComment", 404, u, c)
          /\ UNCHANGED reqs
     ELSE IF ~checkOwnership(u, comments[c]) \/ ~ownerOrAdmin(u, comments[c])
     THEN /\ resp' = Reply("updateComment", 403, u, c)
          /\ UNCHANGED reqs
     ELSE /\ resp' = NoResp
          /\ reqs' = [reqs EXCEPT ![s] =
                        [IdleReq EXCEPT !.op = "updateComment",
                                        !.pc = "findByIdAndUpdate",
                                        !.caller = u, !.id = c,
                                        !.content = content]]
  /\ UNCHANGED <<users, blogs, comments, now>>

\* Comment.findByIdAndUpdate(id, { content }, { new, runValidators }) and the
\* response (commentController.js:153-162).  The filter is the id alone; the
\* validators refuse an empty content (part_004:186-192, part_003:32); no
\* save hook runs.  A row removed meanwhile gives data: null.
findByIdAndUpdate(s) ==
  LET r == reqs[s] IN
  /\ r.pc = "findByIdAndUpdate"
  /\ IF r.content = ""
     THEN /\ resp' = Reply("updateComment", 400, r.caller, r.id)
          /\ UNCHANGED comments
     ELSE IF ~LiveComment(r.id)
     THEN /\ resp' = Reply("updateComment", 200, r.caller, r.id)
          /\ UNCHANGED comments
     ELSE /\ comments' = [comments EXCEPT ![r.id].content = r.content]
          /\ resp' = [Reply("updateComment", 200, r.caller, r.id) EXCEPT
                        !.data = {r.id}]
  /\ reqs' = [reqs EXCEPT ![s] = IdleReq]
  /\ UNCHANGED <<users, blogs, now>>

\* deleteComment (commentController.js:168-187) behind the route's
\* checkOwnership.
deleteComment(u, c) ==
  /\ u \in Users
  /\ IF ~findOneComment(c)
     THEN /\ resp' = Reply("deleteComment", 404, u, c)
          /\ UNCHANGED comments
     ELSE IF ~checkOwnership(u, comments[c]) \/ ~ownerOrAdmin(u, comments[c])
     THEN /\ resp' = Reply("deleteComment", 403, u, c)
          /\ UNCHANGED comments
     ELSE /\ comments' = [comments EXCEPT ![c] = softDelete(@)]
          /\ resp' = Reply("deleteComment", 200, u, c)
  /\ UNCHANGED <<users, blogs, reqs, now>>

\* toggleLikeComment (commentController.js:192-202) up to the document it
\* loads.
toggleLikeComment(s, u, c) ==
  /\ u \in Users
  /\ reqs[s].pc = "idle"
  /\ IF ~findOneComment(c)
     THEN /\ resp' = Reply("toggleLikeComment", 404, u, c)
          /\ UNCHANGED reqs
     ELSE IF ~Live(comments[c].blog)
     THEN /\ resp' = Reply("toggleLikeComment", 500, u, c)
          /\ UNCHANGED reqs
     ELSE IF ~isPublished(blogs[comments[c].blog])
     THEN /\ resp' = Reply("toggleLikeComment", 400, u, c)
          /\ UNCHANGED reqs
     ELSE /\ HasRoom(comments[c].likes, u)
          /\ resp' = NoResp
          /\ reqs' = [reqs EXCEPT ![s] =
                        [IdleReq EXCEPT !.op = "toggleLikeComment",
                                        !.pc = "save", !.caller = u,
                                        !.id = c, !.likes = comments[c].likes]]
  /\ UNCHANGED <<users, blogs, comments, now>>

\* -------------------------------------------------------------- accounts
\* What the account routes are sent.
Usernames == {"alice", "carol"}
RawEmails == {"alice@x", "ALICE@x", "carol@x"}
Secrets == {<<"p1">>, <<"p2">>}

\* lowercase: true on email (User.js:21) and normalizeEmail() of the
\* validators (part_002:86, 103, 124), on the addresses above.
toLowerCase(e) == IF e = "ALICE@x" THEN "alice@x" ELSE e

LiveUser(a) == users[a].life = "live"

\* { $or: [{ email }, { username }] } with the keys the body has
\* (part_004:377-379, 461-469; userController.js:129); the filter is cast
\* through the schema, so the address is lower-cased.
matchesOr(a, body) ==
  /\ LiveUser(a)
  /\ \/ "email" \in body.fields /\ users[a].email = toLowerCase(body.email)
     \/ "username" \in body.fields /\ users[a].username = body.username

\* An index that refuses nothing.
duplicateKeys_none(id, doc) == {}

\* unique: true on username and email (User.js:8-26): the keys of doc that
\* another stored account holds.
duplicateKeys(id, doc) ==
  {k \in {"username", "email"} :
     \E a \in AccountIds \ {id} :
        /\ LiveUser(a)
        /\ IF k = "email" THEN users[a].email = doc.email
           ELSE users[a].username = doc.username}

\* errorHandler on err.code 11000 (part_003:16-29) and the handlers' own
\* messages (part_004:381-384, 471-475; userController.js:130-134).
AlreadyExists(k) ==
  IF k = "email" THEN "Email already exists" ELSE "Username already exists"

\* The store hands out account ids in order.
FreshUser(a) ==
  \E i \in DOMAIN NewUserSeq :
     /\ a = NewUserSeq[i]
     /\ users[a].life = "new"
     /\ \A j \in 1..(i - 1) : users[NewUserSeq[j]].life # "new"

\* A hook that stores the password as it is given.
preSaveUser_plain(doc, passwordModified) == doc

\* userSchema.pre("save") (User.js:89-97); passwordModified is
\* this.isModified("password").
preSaveUser(doc, passwordModified) ==
  IF passwordModified THEN [doc EXCEPT !.password = hash(@)] ELSE doc

RegisterOps == {"register", "registerUser"}

\* The existence test of register (part_004:373-385) behind
\* validateUserRegistration (routes/auth.js:21), and of registerUser
\* (userController.js:118-135), which no validator precedes.
registerAs(op, s, sent) ==
  LET body == IF op = "register"
              THEN [sent EXCEPT !.email = toLowerCase(@)]
              ELSE sent
      found == {a \in AccountIds : matchesOr(a, body)}
  IN
  /\ body.fields = {"username", "email", "password"}
  /\ reqs[s].pc = "idle"
  /\ Cardinality({a \in NewUsers : users[a].life = "new"})
       > Cardinality({t \in Slots : reqs[t].op \in RegisterOps})
  /\ IF found # {}
     THEN /\ \E a \in found :
               resp' = [Reply(op, 400, Anon, NoId) EXCEPT
                          !.body = body,
                          !.msg = AlreadyExists(
                                    IF users[a].email = body.email
                                    THEN "email" ELSE "username")]
          /\ UNCHANGED reqs
     ELSE /\ resp' = NoResp
          /\ reqs' = [reqs EXCEPT ![s] =
                        [IdleReq EXCEPT !.op = op, !.pc = "create",
                                        !.body = body]]
  /\ UNCHANGED <<users, blogs, comments, now>>

register(s, sent) == registerAs("register", s, sent)

registerUser(s, sent) == registerAs("registerUser", s, sent)

\* User.create and the response (part_004:388-397; userController.js:138-163).
\* The save hook hashes the password it is given (User.js:89-97);
\* registerUser has hashed it once already.
createUser(s) ==
  LET r == reqs[s]
      doc == preSaveUser(
               [userSchema EXCEPT
                  !.life = "live",
                  !.username = r.body.username,
                  !.email = toLowerCase(r.body.email),
                  !.password = IF r.op = "registerUser"
                               THEN hash(r.body.password)
                               ELSE r.body.password,
                  !.lastLogin = now],
               TRUE)
      taken == duplicateKeys(NoId, doc)
  IN
  /\ r.op \in RegisterOps
  /\ r.pc = "create"
  /\ IF taken # {}
     THEN /\ \E k \in taken :
               resp' = [Reply(r.op, 400, Anon, NoId) EXCEPT
                          !.body = r.body, !.msg = AlreadyExists(k)]
          /\ UNCHANGED users
     ELSE \E a \in NewUsers :
            /\ FreshUser(a)
            /\ users' = [users EXCEPT ![a] = doc]
            /\ resp' = [Reply(r.op, 201, Anon, a) EXCEPT !.body = r.body]
  /\ reqs' = [reqs EXCEPT ![s] = IdleReq]
  /\ UNCHANGED <<blogs, comments, now>>

\* login (part_004:402-417) over User.findByCredentials (User.js:126-136).
\* A lookup that takes deactivated accounts too.
findByCredentials_anyAccount(sent) ==
  {a \in AccountIds :
     /\ LiveUser(a)
     /\ users[a].email = toLowerCase(sent.email)
     /\ compare(sent.password, users[a].password)}

\* User.findByCredentials (User.js:126-136): the accounts it returns; it
\* throws when there is none.
findByCredentials(sent) ==
  {a \in AccountIds :
     /\ LiveUser(a)
     /\ users[a].email = toLowerCase(sent.email)
     /\ users[a].isActive
     /\ compare(sent.password, users[a].password)}

login(sent) ==
  LET found == findByCredentials(sent)
  IN
  /\ sent.fields = {"email", "password"}
  /\ IF found = {}
     THEN /\ resp' = [Reply("login", 401, Anon, NoId) EXCEPT
                        !.body = sent, !.msg = "Invalid credentials"]
          /\ UNCHANGED users
     ELSE \E a \in found :
            /\ users' = [users EXCEPT ![a].lastLogin = now]
            /\ resp' = [Reply("login", 200, Anon, a) EXCEPT !.body = sent]
  /\ UNCHANGED <<blogs, comments, reqs, now>>

\* loginUser (userController.js:169-209).  Past the password test the
\* handler reads token, a name nothing declares; its catch answers 500.
loginUser(sent) ==
  LET found == {a \in AccountIds :
                  LiveUser(a) /\ users[a].email = toLowerCase(sent.email)}
  IN
  /\ sent.fields = {"email", "password"}
  /\ resp' =
       IF found = {}
       THEN [Reply("loginUser", 400, Anon, NoId) EXCEPT
               !.body = sent,
               !.msg = "User not found, please register first!"]
       ELSE LET a == CHOOSE a \in found : TRUE IN
            IF ~compare(sent.password, users[a].password)
            THEN [Reply("loginUser", 401, Anon, NoId) EXCEPT
                    !.body = sent, !.msg = "Email or password is incorrect"]
            ELSE [Reply("loginUser", 500, Anon, NoId) EXCEPT
                    !.body = sent, !.msg = "token is not defined"]
  /\ UNCHANGED <<users, blogs, comments, reqs, now>>

\* The bodies that change a username or an email.
DetailBodies ==
  { [NoBody EXCEPT !.fields = {"username"}, !.username = n] : n \in Usernames }
    \cup
  { [NoBody EXCEPT !.fields = {"email"}, !.email = e] : e \in RawEmails }

\* updateDetails (part_004:444-476) up to its write, behind protect and
\* validateUserUpdate (routes/auth.js:27); u is req.user.id.
updateDetails(s, u, sent) ==
  LET body == [sent EXCEPT !.email = toLowerCase(@)]
      found == {a \in AccountIds \ {u} : matchesOr(a, body)}
  IN
  /\ LiveUser(u)
  /\ reqs[s].pc = "idle"
  /\ IF found # {}
     THEN /\ \E a \in found :
               resp' = [Reply("updateDetails", 400, u, u) EXCEPT
                          !.body = body,
                          !.msg = AlreadyExists(
                                    IF users[a].email = body.email
                                    THEN "email" ELSE "username")]
          /\ UNCHANGED reqs
     ELSE /\ resp' = NoResp
          /\ reqs' = [reqs EXCEPT ![s] =
                        [IdleReq EXCEPT !.op = "updateDetails",
                                        !.pc = "update", !.caller = u,
                                        !.id = u, !.body = body]]
  /\ UNCHANGED <<users, blogs, comments, now>>

\* updateUser (userController.js:215-219) up to its write, behind protect
\* and authorize("admin") (routes/users.js:36); u is whoever they let
\* through.  The handler tests nothing but the account's existence.
updateUser(s, u, id, sent) ==
  /\ LiveUser(u)
  /\ id \in AccountIds
  /\ reqs[s].pc = "idle"
  /\ IF ~LiveUser(id)
     THEN /\ resp' = [Reply("updateUser", 404, u, id) EXCEPT
                        !.body = sent, !.msg = "User not found"]
          /\ UNCHANGED reqs
     ELSE /\ resp' = NoResp
          /\ reqs' = [reqs EXCEPT ![s] =
                        [IdleReq EXCEPT !.op = "updateUser",
                                        !.pc = "update", !.caller = u,
                                        !.id = id, !.body = sent]]
  /\ UNCHANGED <<users, blogs, comments, now>>

\* User.findByIdAndUpdate and the response (part_004:478-486;
\* userController.js:225-230): the update is cast through the schema, so the
\* address is lower-cased, and the unique indexes refuse a held key.
findByIdAndUpdateUser(s) ==
  LET r == reqs[s]
      old == users[r.id]
      doc == [old EXCEPT
                !.username = IF "username" \in r.body.fields
                             THEN r.body.username ELSE @,
                !.email = IF "email" \in r.body.fields
                          THEN toLowerCase(r.body.email) ELSE @]
      taken == duplicateKeys(r.id, doc)
  IN
  /\ r.op \in {"updateDetails", "updateUser"}
  /\ r.pc = "update"
  /\ IF taken # {}
     THEN /\ \E k \in taken :
               resp' = [Reply(r.op, 400, r.caller, r.id) EXCEPT
                          !.body = r.body, !.msg = AlreadyExists(k)]
          /\ UNCHANGED users
     ELSE /\ users' = [users EXCEPT ![r.id] = doc]
          /\ resp' = [Reply(r.op, 200, r.caller, r.id) EXCEPT
                        !.body = r.body]
  /\ reqs' = [reqs EXCEPT ![s] = IdleReq]
  /\ UNCHANGED <<blogs, comments, now>>

\* The bodies of a password change: currentPassword and newPassword.
PasswordBodies ==
  { [NoBody EXCEPT !.fields = {"currentPassword", "newPassword"},
                   !.password = c, !.newPassword = n] :
      c \in Secrets, n \in Secrets }

\* updatePassword (part_004:492-504) behind protect; u is req.user.id.
updatePassword(u, sent) ==
  /\ LiveUser(u)
  /\ sent \in PasswordBodies
  /\ IF ~compare(sent.password, users[u].password)
     THEN /\ resp' = [Reply("updatePassword", 400, u, u) EXCEPT
                        !.body = sent,
                        !.msg = "Current password is incorrect"]
          /\ UNCHANGED users
     ELSE /\ users' = [users EXCEPT
                         ![u] = preSaveUser([@ EXCEPT
                                               !.password = sent.newPassword],
                                            TRUE)]
          /\ resp' = [Reply("updatePassword", 200, u, u) EXCEPT
                        !.body = sent]
  /\ UNCHANGED <<blogs, comments, reqs, now>>

\* deleteAccount (part_004:509-519) behind protect; u is req.user.id.
deleteAccount(u) ==
  /\ LiveUser(u)
  /\ users' = [users EXCEPT ![u].isActive = FALSE]
  /\ resp' = Reply("deleteAccount", 200, u, u)
  /\ UNCHANGED <<blogs, comments, reqs, now>>

\* deleteUser (userController.js:236-246) behind protect and
\* authorize("admin") (routes/users.js:37).
deleteUser(u, id) ==
  /\ LiveUser(u)
  /\ id \in AccountIds
  /\ IF ~LiveUser(id)
     THEN /\ resp' = [Reply("deleteUser", 404, u, id) EXCEPT
                        !.msg = "User not found"]
          /\ UNCHANGED users
     ELSE /\ users' = [users EXCEPT ![id].isActive = FALSE]
          /\ resp' = Reply("deleteUser", 200, u, id)
  /\ UNCHANGED <<blogs, comments, reqs, now>>

\* ------------------------------------------------------- specifications
Init ==
  /\ users = SeedUsers
  /\ blogs = [b \in BlogIds |-> blogSchema]
  /\ comments = [c \in CommentIds |-> commentSchema]
  /\ reqs = [s \in Slots |-> IdleReq]
  /\ resp = NoResp
  /\ now = 1
  /\ lastLike = NoLast
  /\ mounted \in Controllers

\* The posts a specification works on.
OnePost == {"b1"}

\* The post routes (src/routes/blogs.js:37-87) call the handler of the
\* mounted controller.
Route(aware, plain) ==
  \/ mounted = "aware" /\ aware
  \/ mounted = "plain" /\ plain

\* Requests that run to their response before the next one starts.
CreateRequest(ids, authors, bodies) ==
  \E u \in authors, body \in bodies :
     Route(createBlog(u, body, ids), createBlog_alt(u, body, ids))

ReadRequest(ids) ==
  \E u \in Users \cup {Anon}, b \in ids :
     Route(getBlog(u, b), getBlog_alt(u, b))

UpdateRequest(ids, bodies) ==
  \E u \in Users, b \in ids, body \in bodies :
     Route(updateBlog(u, b, body), updateBlog_alt(u, b, body))

ListRequest ==
  \/ \E u \in Users \cup {Anon}, q \in Queries :
       Route(getBlogs(u, q), getBlogs_alt(u, q))
  \/ \E c \in Categories :
       Route(getBlogsByCategory(c), getBlogsByCategory_alt(c))
  \/ \E t \in Titles : Route(searchBlogs(t), searchBlogs_alt(t))
  \/ getPopularBlogs
  \/ \E u \in Users \cup {Anon}, id \in Users :
       getUserBlogs(u, id, EmptyQuery)
  \/ \E u \in Users : getMyBlogs(u)

LikeStart(s, ids, likers) ==
  \E u \in likers, b \in ids :
     Route(toggleLikeBlog(s, u, b), toggleLikeBlog_alt(s, u, b))

DeleteStart(s, ids) ==
  \E u \in Users, b \in ids :
     Route(deleteBlog(s, u, b), deleteBlog_alt(s, u, b))

DeleteStep == \E s \in Slots : deleteMany(s) \/ deleteOne(s)

\* The post handlers without likes, one request at a time, on one post.
Next ==
  \/ Quiet /\ CreateRequest(OnePost, Users, CreateBodies)
       /\ UNCHANGED <<lastLike, mounted>>
  \/ Quiet /\ ReadRequest(OnePost) /\ UNCHANGED <<lastLike, mounted>>
  \/ Quiet /\ UpdateRequest(OnePost, UpdateBodies)
       /\ UNCHANGED <<lastLike, mounted>>
  \/ Quiet /\ ListRequest /\ UNCHANGED <<lastLike, mounted>>
  \/ Quiet /\ DeleteStart(1, OnePost) /\ UNCHANGED <<lastLike, mounted>>
  \/ DeleteStep /\ UNCHANGED <<lastLike, mounted>>
  \/ Tick /\ UNCHANGED <<lastLike, mounted>>

Spec == Init /\ [][Next]_vars

\* The accounts that like, and the one that writes posts, where a
\* specification needs no more.
Likers == {"alice", "bob"}
Writers == {"alice"}

\* What a completed toggle leaves in lastLike.
ObserveLike(s) ==
  lastLike' =
    IF resp'.status = 200 /\ reqs[s].op # "toggleLikeComment"
    THEN [caller |-> reqs[s].caller, id |-> reqs[s].id,
          before |-> Len(blogs[reqs[s].id].likes)]
    ELSE NoLast

OneComment == {"c1"}

CommentStart(s, posts, ids, authors) ==
  \E u \in authors, b \in posts, parent \in ids \cup {NoId} :
     createComment(s, u, b, parent, ids)

CommentStep(s, ids) == findParent(s) \/ insertComment(s, ids)

CommentLikeStart(s, ids, likers) ==
  \E u \in likers, c \in ids : toggleLikeComment(s, u, c)

\* Likes on one post and one comment, one request at a time; the post's
\* visibility changes between them.
NextLike ==
  \/ Quiet /\ CreateRequest(OnePost, Writers, PublishedBodies)
       /\ lastLike' = NoLast /\ UNCHANGED mounted
  \/ Quiet /\ UpdateRequest(OnePost, VisibilityBodies)
       /\ lastLike' = NoLast /\ UNCHANGED mounted
  \/ Quiet /\ CommentStart(1, OnePost, OneComment, Writers)
       /\ lastLike' = NoLast /\ UNCHANGED mounted
  \/ CommentStep(1, OneComment) /\ lastLike' = NoLast /\ UNCHANGED mounted
  \/ Quiet /\ LikeStart(1, OnePost, Users) /\ UNCHANGED <<lastLike, mounted>>
  \/ Quiet /\ CommentLikeStart(1, OneComment, Users)
       /\ UNCHANGED <<lastLike, mounted>>
  \/ saveLike(1) /\ ObserveLike(1) /\ UNCHANGED mounted

SpecLike == Init /\ [][NextLike]_vars

\* Likes on one post and one comment with two requests in flight.
NextConc ==
  \/ Quiet /\ CreateRequest(OnePost, Writers, PublishedBodies)
       /\ UNCHANGED <<lastLike, mounted>>
  \/ Quiet /\ CommentStart(1, OnePost, OneComment, Writers)
       /\ UNCHANGED <<lastLike, mounted>>
  \/ CommentStep(1, OneComment) /\ UNCHANGED <<lastLike, mounted>>
  \/ \E s \in Slots :
       LikeStart(s, OnePost, Likers) /\ UNCHANGED <<lastLike, mounted>>
  \/ \E s \in Slots :
       CommentLikeStart(s, OneComment, Likers)
         /\ UNCHANGED <<lastLike, mounted>>
  \/ \E s \in Slots : saveLike(s) /\ UNCHANGED <<lastLike, mounted>>

SpecConc == Init /\ [][NextConc]_vars

Commenters == {"bob"}

CommentDelete(ids) == \E u \in Users, c \in ids : deleteComment(u, c)

\* Posts with their comment threads, created and removed, one request at a
\* time.
NextCascade ==
  \/ Quiet /\ CreateRequest(BlogIds, Writers, PublishedBodies)
       /\ UNCHANGED <<lastLike, mounted>>
  \/ Quiet /\ CommentStart(1, BlogIds, CommentIds, Commenters)
       /\ UNCHANGED <<lastLike, mounted>>
  \/ CommentStep(1, CommentIds) /\ UNCHANGED <<lastLike, mounted>>
  \/ Quiet /\ CommentDelete(CommentIds) /\ UNCHANGED <<lastLike, mounted>>
  \/ Quiet /\ DeleteStart(1, BlogIds) /\ UNCHANGED <<lastLike, mounted>>
  \/ DeleteStep /\ UNCHANGED <<lastLike, mounted>>

SpecCascade == Init /\ [][NextCascade]_vars

CommentRead(posts, ids) ==
  \E u \in Users \cup {Anon} :
     \/ \E b \in posts : getComments(u, b)
     \/ \E c \in ids : getComment(u, c)
     \/ \E c \in ids : getCommentReplies(u, c)
     \/ \E id \in Users, dropped \in BOOLEAN : getUserComments(u, id, dropped)

\* One post whose visibility changes, its comments and their readers, one
\* request at a time.
NextReaders ==
  \/ Quiet /\ CreateRequest(OnePost, Writers, PublishedBodies)
       /\ UNCHANGED <<lastLike, mounted>>
  \/ Quiet /\ UpdateRequest(OnePost, VisibilityBodies)
       /\ UNCHANGED <<lastLike, mounted>>
  \/ Quiet /\ CommentStart(1, OnePost, CommentIds, Commenters)
       /\ UNCHANGED <<lastLike, mounted>>
  \/ CommentStep(1, CommentIds) /\ UNCHANGED <<lastLike, mounted>>
  \/ Quiet /\ CommentDelete(CommentIds) /\ UNCHANGED <<lastLike, mounted>>
  \/ Quiet /\ CommentRead(OnePost, CommentIds)
       /\ UNCHANGED <<lastLike, mounted>>

SpecReaders == Init /\ [][NextReaders]_vars

TwoComments == {"c1", "c2"}

\* One post whose visibility changes and the comment create route, open to
\* every account, one request at a time.
NextGate ==
  \/ Quiet /\ CreateRequest(OnePost, Writers, CreateBodies)
       /\ UNCHANGED <<lastLike, mounted>>
  \/ Quiet /\ UpdateRequest(OnePost, VisibilityBodies)
       /\ UNCHANGED <<lastLike, mounted>>
  \/ Quiet /\ CommentStart(1, BlogIds, TwoComments, Users)
       /\ UNCHANGED <<lastLike, mounted>>
  \/ CommentStep(1, TwoComments) /\ UNCHANGED <<lastLike, mounted>>

SpecGate == Init /\ [][NextGate]_vars

CommentUpdateStart(s, ids) ==
  \E u \in Users, c \in ids, content \in Contents :
     updateComment(s, u, c, content)

\* One published post and its thread: comments and replies are written,
\* edited, liked, deleted and read while the clock runs, one request at a
\* time.
NextThread ==
  \/ Tick /\ UNCHANGED <<lastLike, mounted>>
  \/ Quiet /\ CreateRequest(OnePost, Writers, PublishedBodies)
       /\ UNCHANGED <<lastLike, mounted>>
  \/ Quiet /\ CommentStart(1, OnePost, TwoComments, Commenters)
       /\ UNCHANGED <<lastLike, mounted>>
  \/ CommentStep(1, TwoComments) /\ UNCHANGED <<lastLike, mounted>>
  \/ Quiet /\ CommentUpdateStart(2, TwoComments)
       /\ UNCHANGED <<lastLike, mounted>>
  \/ findByIdAndUpdate(2) /\ UNCHANGED <<lastLike, mounted>>
  \/ Quiet /\ CommentDelete(TwoComments)
       /\ UNCHANGED <<lastLike, mounted>>
  \/ Quiet /\ CommentLikeStart(1, OneComment, Commenters)
       /\ UNCHANGED <<lastLike, mounted>>
  \/ saveLike(1) /\ UNCHANGED <<lastLike, mounted>>
  \/ Quiet /\ CommentRead(OnePost, TwoComments)
       /\ UNCHANGED <<lastLike, mounted>>

SpecThread == Init /\ [][NextThread]_vars

RegisterBodies ==
  { [NoBody EXCEPT !.fields = {"username", "email", "password"},
                   !.username = n, !.email = e, !.password = <<"p1">>] :
      n \in Usernames, e \in RawEmails }

LoginBodies ==
  { [NoBody EXCEPT !.fields = {"email", "password"},
                   !.email = e, !.password = p] :
      e \in RawEmails, p \in Secrets }

\* The accounts whose details change and who are deactivated.
Movers == {"alice", "u4"}

\* The account routes: registrations and updates of details wait between
\* their lookup and their write while other requests are served.
NextAccounts ==
  \/ (\E sent \in RegisterBodies : register(1, sent))
       /\ UNCHANGED <<lastLike, mounted>>
  \/ (\E sent \in RegisterBodies : registerUser(2, sent))
       /\ UNCHANGED <<lastLike, mounted>>
  \/ (\E s \in Slots : createUser(s)) /\ UNCHANGED <<lastLike, mounted>>
  \/ (\E u \in Movers, sent \in DetailBodies : updateDetails(1, u, sent))
       /\ UNCHANGED <<lastLike, mounted>>
  \/ (\E id \in Movers, sent \in DetailBodies :
         updateUser(2, "root", id, sent))
       /\ UNCHANGED <<lastLike, mounted>>
  \/ (\E s \in Slots : findByIdAndUpdateUser(s))
       /\ UNCHANGED <<lastLike, mounted>>
  \/ (\E u \in Movers : deleteAccount(u)) /\ UNCHANGED <<lastLike, mounted>>
  \/ (\E id \in Movers : deleteUser("root", id))
       /\ UNCHANGED <<lastLike, mounted>>

SpecAccounts == Init /\ [][NextAccounts]_vars

\* The two login routes, while accounts register, change their password
\* and are deactivated, one request at a time.
NextLogin ==
  \/ Quiet /\ (\E sent \in RegisterBodies : register(1, sent))
       /\ UNCHANGED <<lastLike, mounted>>
  \/ Quiet /\ (\E sent \in RegisterBodies : registerUser(1, sent))
       /\ UNCHANGED <<lastLike, mounted>>
  \/ createUser(1) /\ UNCHANGED <<lastLike, mounted>>
  \/ Quiet /\ (\E u \in Movers : deleteAccount(u))
       /\ UNCHANGED <<lastLike, mounted>>
  \/ Quiet /\ (\E id \in Movers : deleteUser("root", id))
       /\ UNCHANGED <<lastLike, mounted>>
  \/ Quiet /\ (\E u \in Movers, sent \in PasswordBodies :
                  updatePassword(u, sent))
       /\ UNCHANGED <<lastLike, mounted>>
  \/ Quiet /\ (\E sent \in LoginBodies : login(sent))
       /\ UNCHANGED <<lastLike, mounted>>
  \/ Quiet /\ (\E sent \in LoginBodies : loginUser(sent))
       /\ UNCHANGED <<lastLike, mounted>>

SpecLogin == Init /\ [][NextLogin]_vars

\* ----------------------------------------------------------------- claims
\* The policy of the specification: a post is publicly visible when it is
\* published and public; its owner and admins may view it in any state.
publiclyVisible(post) ==
  post.life = "live" /\ post.status = "published" /\ post.isPublic

canViewPost(caller, post) ==
  \/ post.status = "published" /\ post.isPublic
  \/ caller # Anon /\ (caller = post.author \/ users[caller].role = "admin")

GetByIdOps == {"getBlog", "getBlog_alt"}

\* C1: getById returns a post's data only when the post is published and
\* public or the caller is its owner or an admin, and an anonymous caller
\* obtains a stored post exactly when it is published and public.
C1_GetByIdOnlyVisible ==
  resp.op \in GetByIdOps =>
    /\ resp.status = 200 => canViewPost(resp.caller, blogs[resp.id])
    /\ (resp.caller = Anon /\ Live(resp.id)) =>
         (resp.status = 200 <=> canViewPost(Anon, blogs[resp.id]))

ListingOps ==
  {"getBlogs", "getBlogs_alt", "getBlogsByCategory", "getBlogsByCategory_alt",
   "searchBlogs", "searchBlogs_alt", "getUserBlogs"}

\* C2: a listing other than the caller's own posts answers an anonymous or
\* non-admin caller with published and public posts only.
C2_ListingsOnlyPublic ==
  ( /\ resp.op \in ListingOps
    /\ resp.status = 200
    /\ ~isAdmin(resp.caller)
    /\ resp.op = "getUserBlogs" => resp.caller # resp.id )
  => \A b \in resp.data :
        blogs[b].status = "published" /\ blogs[b].isPublic

MutateOps == {"updateBlog", "updateBlog_alt", "deleteBlog", "deleteBlog_alt"}

\* C3: an update or delete of a stored post succeeds when the caller is the
\* post's owner or an admin, and otherwise answers Forbidden and leaves the
\* post and every comment as they were.
C3_MutateIffOwnerOrAdmin ==
  [][ (resp'.op \in MutateOps /\ Live(resp'.id)) =>
        LET post == blogs[resp'.id]
            caller == resp'.caller
        IN IF caller = post.author \/ users[caller].role = "admin"
           THEN resp'.status = 200
           ELSE /\ resp'.status = 403
                /\ blogs' = blogs
                /\ comments' = comments ]_vars

UpdateOps == {"updateBlog", "updateBlog_alt"}

\* C4: an update that moves a post from draft to published leaves the stored
\* post with publishedAt set.
C4_PublishSetsPublishedAt ==
  [][ ( /\ resp'.op \in UpdateOps
        /\ resp'.status = 200
        /\ blogs[resp'.id].status = "draft"
        /\ blogs'[resp'.id].status = "published" )
      => blogs'[resp'.id].publishedAt # 0 ]_vars

\* C5: once publishedAt of a post is set, no step changes or clears it while
\* the post is stored.
C5_PublishedAtFrozen ==
  [][ \A b \in BlogIds :
        (Live(b) /\ blogs[b].publishedAt # 0 /\ blogs'[b].life = "live")
        => blogs'[b].publishedAt = blogs[b].publishedAt ]_vars

\* C6: no likes array of a post or of a comment holds two entries of one
\* account, whatever the interleaving of the toggles.
EntryAccount(e) == IF e.user # NoId THEN e.user ELSE e.id

NoDuplicateLike(likes) ==
  \A i, j \in DOMAIN likes :
     EntryAccount(likes[i]) = EntryAccount(likes[j]) => i = j

C6_OneLikePerAccount ==
  /\ \A b \in BlogIds : NoDuplicateLike(blogs[b].likes)
  /\ \A c \in CommentIds : NoDuplicateLike(comments[c].likes)

PostToggleOps == {"toggleLikeBlog", "toggleLikeBlog_alt"}

ToggleOps == PostToggleOps \cup {"toggleLikeComment"}

\* The post a toggle's response is about, in the state before the step.
ToggledPost(r) ==
  IF r.op = "toggleLikeComment" THEN comments[r.id].blog ELSE r.id

ToggleTargetStored(r) ==
  /\ r.op = "toggleLikeComment" =>
       comments[r.id].life = "live" /\ ~comments[r.id].isDeleted
  /\ Live(ToggledPost(r))

\* C7: the second of two consecutive toggles by one account on one publicly
\* visible post restores the number of likes the post had before the first
\* and reports liked = false.
C7_TogglePairRestores ==
  [][ \A s \in Slots :
        ( /\ reqs[s].pc = "save"
          /\ reqs'[s].pc = "idle"
          /\ reqs[s].op \in PostToggleOps
          /\ lastLike.caller = reqs[s].caller
          /\ lastLike.id = reqs[s].id
          /\ canViewPost(Anon, blogs[reqs[s].id]) )
        => /\ resp'.status = 200
           /\ resp'.liked = FALSE
           /\ Len(blogs'[reqs[s].id].likes) = lastLike.before ]_vars

\* C8: a toggle on a stored post, or on a stored comment of it, answers
\* BadRequest to every caller when the post is not publicly visible and
\* leaves the likes as they were; on a publicly visible post no
\* authenticated caller is turned away.
C8_ToggleNeedsVisiblePost ==
  [][ (resp'.op \in ToggleOps /\ ToggleTargetStored(resp')) =>
        IF canViewPost(Anon, blogs[ToggledPost(resp')])
        THEN resp'.status \notin {400, 401, 403}
        ELSE /\ resp'.status = 400
             /\ \A b \in BlogIds : blogs'[b].likes = blogs[b].likes
             /\ \A c \in CommentIds :
                  comments'[c].likes = comments[c].likes ]_vars

DeleteOps == {"deleteBlog", "deleteBlog_alt"}

\* C9: once a delete of post X has answered success the post is gone and no
\* stored comment has blog = X; the steps of the delete leave the comments
\* of every other post as they were.
C9_DeleteCascades ==
  /\ [](\A b \in BlogIds :
          (resp.op \in DeleteOps /\ resp.status = 200 /\ resp.id = b) =>
            /\ blogs[b].life = "gone"
            /\ \A c \in CommentIds :
                 comments[c].blog = b => comments[c].life # "live")
  /\ [][ \A s \in Slots :
           (reqs[s].op \in DeleteOps /\ reqs[s].pc # "idle") =>
             \A c \in CommentIds :
                comments[c].blog # reqs[s].id => comments'[c] = comments[c]
        ]_vars

\* A delete answered success after it removed a reply and a soft-deleted
\* comment of the post, while another post keeps a comment.
C9_Witness ==
  /\ resp.op \in DeleteOps
  /\ resp.status = 200
  /\ \E c \in CommentIds :
       /\ comments[c].life = "gone"
       /\ comments[c].blog = resp.id
       /\ comments[c].parentComment # NoId
  /\ \E c \in CommentIds :
       /\ comments[c].life = "gone"
       /\ comments[c].blog = resp.id
       /\ comments[c].isDeleted
  /\ \E c \in CommentIds :
       comments[c].life = "live" /\ comments[c].blog # resp.id

CommentReadOps == {"getComments", "getComment", "getCommentReplies"}

\* The post a comment reader's response is about.
ReadPost(r) == IF r.op = "getComments" THEN r.id ELSE comments[r.id].blog

ReadTargetStored(r) ==
  /\ r.op # "getComments" =>
       comments[r.id].life = "live" /\ ~comments[r.id].isDeleted
  /\ Live(ReadPost(r))

\* C10: listForPost, comment getById and repliesOf on a stored target answer
\* success when the caller may view the post and Forbidden otherwise, the
\* comment's own author included; no comment they return is on a post the
\* caller could not read.
C10_CommentsFollowPost ==
  resp.op \in CommentReadOps =>
    /\ ReadTargetStored(resp) =>
         resp.status =
           IF canViewPost(resp.caller, blogs[ReadPost(resp)]) THEN 200 ELSE 403
    /\ \A c \in resp.data :
         canViewPost(resp.caller, blogs[comments[c].blog])

\* The author of a comment is refused his own comment on a post that went
\* out of public view.
C10_Witness ==
  /\ resp.op = "getComment"
  /\ resp.status = 403
  /\ comments[resp.id].life = "live"
  /\ resp.caller = comments[resp.id].author
  /\ ~canViewPost(Anon, blogs[comments[resp.id].blog])

\* C11: byAuthor returns a comment only when the caller may view its post,
\* and the owner of a post sees the comments the account wrote on it, also
\* when the post is not publicly visible.
C11_ByAuthorFollowsPost ==
  (resp.op = "getUserComments" /\ resp.status = 200) =>
    /\ \A c \in resp.data :
         canViewPost(resp.caller, blogs[comments[c].blog])
    /\ \A c \in CommentIds :
         ( /\ comments[c].life = "live"
           /\ ~comments[c].isDeleted
           /\ comments[c].author = resp.id
           /\ blogs[comments[c].blog].life = "live"
           /\ resp.caller = blogs[comments[c].blog].author )
         => c \in resp.data

\* C12: a comment create succeeds only on a post that exists and is
\* publicly visible; on a post that is not, the request of any account, the
\* owner and the admins included, is answered 400 (404 when the post does not
\* exist) and no comment is created.
C12_CreateNeedsVisiblePost ==
  /\ [] ( (resp.op = "createComment" /\ resp.status = 201) =>
            /\ publiclyVisible(blogs[resp.id])
            /\ \A c \in resp.data :
                 comments[c].life = "live" /\ comments[c].blog = resp.id )
  /\ [][ /\ \A s \in Slots :
              (reqs[s].pc = "idle" /\ reqs'[s].op = "createComment") =>
                publiclyVisible(blogs[reqs'[s].id])
         /\ (Quiet /\ resp'.op = "createComment") =>
              /\ ~publiclyVisible(blogs[resp'.id])
              /\ resp'.status =
                   (IF blogs[resp'.id].life = "live" THEN 400 ELSE 404)
              /\ comments' = comments
         /\ \A c \in CommentIds :
              (comments[c].life = "new" /\ comments'[c].life = "live") =>
                /\ \E s \in Slots : reqs[s].op = "createComment"
                /\ resp'.op = "createComment" /\ resp'.status = 201
       ]_vars

\* The owner of a draft is refused.
C12_Witness ==
  /\ resp.op = "createComment"
  /\ resp.status = 400
  /\ blogs[resp.id].life = "live"
  /\ blogs[resp.id].status = "draft"
  /\ resp.caller = blogs[resp.id].author

\* C13: a comment whose parentComment is set references a comment on the
\* same post; a create whose parentComment names a comment of another post,
\* a soft-deleted comment or no comment is answered 404 and creates nothing.
usableParent(parent, post) ==
  /\ parent \in CommentIds
  /\ comments[parent].life = "live"
  /\ ~comments[parent].isDeleted
  /\ comments[parent].blog = post

C13_ParentOnSamePost ==
  /\ [] ( \A c \in CommentIds :
            (comments[c].life = "live" /\ comments[c].parentComment # NoId) =>
              /\ comments[comments[c].parentComment].life = "live"
              /\ comments[comments[c].parentComment].blog = comments[c].blog )
  /\ [][ /\ \A s \in Slots :
              ( /\ reqs[s].op = "createComment"
                /\ reqs[s].pc = "findParent"
                /\ reqs'[s].pc # "findParent" ) =>
                IF reqs[s].parent = NoId \/ usableParent(reqs[s].parent, reqs[s].id)
                THEN reqs'[s].pc = "create" /\ comments' = comments
                ELSE /\ resp'.op = "createComment"
                     /\ resp'.status = 404
                     /\ reqs'[s].pc = "idle"
                     /\ comments' = comments
         /\ \A c \in CommentIds :
              (comments[c].life = "new" /\ comments'[c].life = "live") =>
                \/ comments'[c].parentComment = NoId
                \/ usableParent(comments'[c].parentComment, comments'[c].blog)
       ]_vars

\* A reply exists, and a later create on a stored post was answered 404 for
\* its parent.
C13_Witness ==
  /\ resp.op = "createComment"
  /\ resp.status = 404
  /\ blogs[resp.id].life = "live"
  /\ \E c \in CommentIds :
       /\ comments[c].life = "live"
       /\ comments[c].parentComment # NoId
       /\ comments[comments[c].parentComment].isDeleted

\* C14: a deleted comment keeps its row, with the deleted flag set and the
\* tombstone as its body; the listing of its post and the replies of its
\* parent leave it out; getById, update, delete and toggleLike on it are
\* answered 404; no request of the thread removes a comment row.
OnCommentOps ==
  {"getComment", "updateComment", "deleteComment", "toggleLikeComment"}

repliesStored(c) ==
  {d \in CommentIds :
     /\ comments[d].life = "live"
     /\ ~comments[d].isDeleted
     /\ comments[d].parentComment = c}

C15_RepliesOutliveParent ==
  /\ ( /\ resp.op = "getCommentReplies"
       /\ comments[resp.id].life = "live"
       /\ comments[resp.id].isDeleted
       /\ publiclyVisible(blogs[comments[resp.id].blog])
       /\ repliesStored(resp.id) # {} )
     => (resp.status = 200 /\ resp.data = repliesStored(resp.id))
  /\ ( /\ resp.op = "getComments"
       /\ publiclyVisible(blogs[resp.id]) )
     => /\ resp.status = 200
        /\ \A c \in CommentIds :
             (comments[c].life = "live" /\ comments[c].blog = resp.id) =>
               (c \in resp.data <=> ~comments[c].isDeleted)

\* C16: an update answered 200 stores the new body and sets the edited flag
\* together with the edited timestamp, the time of the update.
C16_UpdateMarksEdited ==
  [][ \A s \in Slots :
        ( /\ reqs[s].op = "updateComment"
          /\ reqs[s].pc = "findByIdAndUpdate"
          /\ reqs'[s].pc = "idle"
          /\ resp'.status = 200
          /\ comments[reqs[s].id].life = "live" ) =>
          /\ comments'[reqs[s].id].content = reqs[s].content
          /\ comments'[reqs[s].id].isEdited
          /\ comments'[reqs[s].id].editedAt = now
    ]_vars

\* C17: an update or a delete of a stored, undeleted comment goes ahead
\* exactly when the caller is the comment's author or an admin; any other
\* caller, the owner of the post included, is answered 403 and the comment's
\* body, edited flag and deleted flag stay as they were.
mayMutateComment(caller, c) ==
  caller = comments[c].author \/ users[caller].role = "admin"

stored(c) == comments[c].life = "live" /\ ~comments[c].isDeleted

C17_MutateCommentIffAuthorOrAdmin ==
  [][ /\ \A s \in Slots :
           (reqs[s].pc = "idle" /\ reqs'[s].op = "updateComment") =>
             (stored(reqs'[s].id) /\ mayMutateComment(reqs'[s].caller, reqs'[s].id))
      /\ (Quiet /\ resp'.op = "updateComment" /\ stored(resp'.id)) =>
           /\ ~mayMutateComment(resp'.caller, resp'.id)
           /\ resp'.status = 403
           /\ comments' = comments
      /\ (resp'.op = "deleteComment" /\ stored(resp'.id)) =>
           IF mayMutateComment(resp'.caller, resp'.id)
           THEN resp'.status = 200 /\ comments'[resp'.id].isDeleted
           ELSE resp'.status = 403 /\ comments' = comments
    ]_vars

\* The owner of the post asked to change a comment of another account and
\* was refused.
C17_Witness ==
  /\ resp.op \in {"updateComment", "deleteComment"}
  /\ resp.status = 403
  /\ stored(resp.id)
  /\ resp.caller = blogs[comments[resp.id].blog].author
  /\ resp.caller # comments[resp.id].author

\* C18: whatever registrations, updates of details, admin updates and
\* deactivations have run or are under way, no two stored accounts have the
\* same username and no two have the same email.
C18_UniqueHandleAndEmail ==
  \A a \in AccountIds, b \in AccountIds :
     (a # b /\ users[a].life = "live" /\ users[b].life = "live") =>
       /\ users[a].username # users[b].username
       /\ users[a].email # users[b].email

\* A write that no handler test stood before was refused for a held key,
\* while a registered account and a deactivated one are stored.
C18_Witness ==
  /\ resp.op = "updateUser"
  /\ resp.status = 400
  /\ \E a \in NewUsers : users[a].life = "live"
  /\ \E a \in AccountIds : users[a].life = "live" /\ ~users[a].isActive

\* C19: a registration whose username or email a stored account holds, a
\* deactivated one included, is answered with the already-exists failure and
\* creates no account; a deactivation keeps the record, its username and its
\* email.
ConflictMessages == {"Email already exists", "Username already exists"}

held(body) ==
  \E a \in AccountIds :
     /\ users[a].life = "live"
     /\ \/ users[a].username = body.username
        \/ users[a].email = toLowerCase(body.email)

LoginOps == {"login", "loginUser"}

GenericFailures == {"Invalid credentials", "Email or password is incorrect"}

verifies(body) ==
  \E a \in AccountIds :
     /\ users[a].life = "live"
     /\ users[a].isActive
     /\ users[a].email = toLowerCase(body.email)
     /\ users[a].password = hash(body.password)

C20_LoginFailuresAlike ==
  (resp.op \in LoginOps /\ ~verifies(resp.body)) =>
    (resp.status = 401 /\ resp.msg \in GenericFailures)

\* C21: a password change whose currentPassword does not verify is answered
\* 400 and leaves the stored digest as it was; after a change answered 200
\* the stored digest verifies the new secret and no longer the old one, and
\* login succeeds exactly with the secret the digest verifies.
C21_ChangeSecret ==
  /\ [][ (resp'.op = "updatePassword" /\ resp' # resp) =>
           LET u == resp'.id
               sent == resp'.body
           IN IF users[u].password # hash(sent.password)
              THEN resp'.status = 400 /\ users' = users
              ELSE /\ resp'.status = 200
                   /\ users'[u].password = hash(sent.newPassword)
                   /\ sent.password # sent.newPassword =>
                        users'[u].password # hash(sent.password)
       ]_vars
  /\ [] ( resp.op = "login" => (resp.status = 200 <=> verifies(resp.body)) )

\* An account changed its secret to "p2" and then logged in with it.
C21_Witness ==
  /\ resp.op = "login"
  /\ resp.status = 200
  /\ resp.body.password = <<"p2">>
  /\ users[resp.id].password = hash(<<"p2">>)

\* C22: a post update by a caller who is not an admin, answered 200, leaves
\* the post's author as it was, whatever the body carries.
C22_AuthorFrozenForNonAdmins ==
  [][ ( /\ resp'.op \in UpdateOps
        /\ resp'.status = 200
        /\ users[resp'.caller].role # "admin" ) =>
        blogs'[resp'.id].author = blogs[resp'.id].author
    ]_vars

\* C23: a getById answered 200 adds exactly one to the post's views when the
\* post is publicly visible and the caller is not its owner; every other
\* getById leaves the views as they were.
C23_ViewsCountPublicReads ==
  [][ resp'.op \in GetByIdOps =>
        LET b == resp'.id IN
        blogs'[b].views =
          IF /\ resp'.status = 200
             /\ publiclyVisible(blogs[b])
             /\ resp'.caller # blogs[b].author
          THEN blogs[b].views + 1
          ELSE blogs[b].views
    ]_vars

\* C24: a getById is answered 404 only when no post has the id, and 403
\* whenever the post is stored and the caller, anonymous or not, may not
\* view it.
C24_GetByIdNotFoundOrForbidden ==
  resp.op \in GetByIdOps =>
    /\ resp.status = 404 => blogs[resp.id].life # "live"
    /\ (blogs[resp.id].life = "live"
          /\ ~canViewPost(resp.caller, blogs[resp.id])) =>
         resp.status = 403

\* Posts with their comments, where a comment create and a post delete are
\* in flight together: each await of createComment (commentController.js:
\* 103, 111, 120) and of deleteBlog (blogController.js:397, 407, 408) is a
\* step of its own.
NextRace ==
  \/ Quiet /\ CreateRequest(BlogIds, Writers, PublishedBodies)
       /\ UNCHANGED <<lastLike, mounted>>
  \/ CommentStart(1, BlogIds, TwoComments, Users)
       /\ UNCHANGED <<lastLike, mounted>>
  \/ CommentStep(1, TwoComments) /\ UNCHANGED <<lastLike, mounted>>
  \/ DeleteStart(2, BlogIds) /\ UNCHANGED <<lastLike, mounted>>
  \/ DeleteStep /\ UNCHANGED <<lastLike, mounted>>

SpecRace == Init /\ [][NextRace]_vars

\* C25: however a post delete interleaves with comment creates on the same
\* post, the post is removed only when none of its comments is stored, and
\* no stored comment names a removed post.
C25_DeleteRacesCreate ==
  /\ [][ \A b \in BlogIds :
           (blogs[b].life = "live" /\ blogs'[b].life = "gone") =>
             \A c \in CommentIds :
                comments[c].blog = b => comments[c].life # "live" ]_vars
  /\ [](\A b \in BlogIds, c \in CommentIds :
          (blogs[b].life = "gone" /\ comments[c].blog = b) =>
            comments[c].life # "live")

Statuses == {"draft", "published", "archived"}

\* Update bodies that name a status, any value of the schema's enum.
StatusBodies ==
  { [EmptyBody EXCEPT !.fields = {"status"}, !.status = t] : t \in Statuses }

\* validateBlogUpdate (part_002:195-245) on the keys the model keeps: a
\* status, when present, is draft or published.
validateBlogUpdate(body) ==
  "status" \in body.fields => body.status \in {"draft", "published"}

\* PUT /api/blogs/:id (routes/blogs.js:70-77): checkOwnership, then the
\* validator, whose handleValidationErrors (part_002:9-23) answers 400, then
\* the handler.
putBlog(u, b, body) ==
  IF Live(b) /\ checkOwnership(u, blogs[b]) /\ ~validateBlogUpdate(body)
  THEN /\ u \in Users
       /\ resp' = [Reply("validateBlogUpdate", 400, u, b) EXCEPT
                     !.msg = "Validation failed"]
       /\ UNCHANGED <<users, blogs, comments, reqs, now>>
  ELSE Route(updateBlog(u, b, body), updateBlog_alt(u, b, body))

\* Posts whose status is moved through the update route.
NextStatus ==
  \/ CreateRequest(BlogIds, Writers, CreateBodies)
       /\ UNCHANGED <<lastLike, mounted>>
  \/ (\E u \in Users, b \in BlogIds, body \in StatusBodies :
         putBlog(u, b, body))
       /\ UNCHANGED <<lastLike, mounted>>
  \/ Tick /\ UNCHANGED <<lastLike, mounted>>

SpecStatus == Init /\ [][NextStatus]_vars

\* The owner of post b asks for status t and the post takes it.
OwnerMoves(b, t) ==
  /\ putBlog(blogs[b].author, b,
             [EmptyBody EXCEPT !.fields = {"status"}, !.status = t])
  /\ UNCHANGED <<lastLike, mounted>>
  /\ resp'.status = 200
  /\ blogs'[b].status = t

\* C27: the owner of a stored post can move it, through update, to each of
\* draft, published and archived, whatever its status is.
C27_OwnerReachesEveryStatus ==
  \A b \in BlogIds, t \in Statuses :
     blogs[b].life = "live" => ENABLED OwnerMoves(b, t)

\* POST /api/auth/login with the email and the secret of body, answered
\* with a token.
LoginSucceeds(body) ==
  /\ login([NoBody EXCEPT !.fields = {"email", "password"},
                          !.email = body.email,
                          !.password = body.password])
  /\ UNCHANGED <<lastLike, mounted>>
  /\ resp'.status = 200

\* C28: an account made by a successful registration with secret s, on
\* either registration route, stores a digest that verifies against s, and
\* a login with its email and s succeeds.
C28_RegisteredSecretLogsIn ==
  (resp.op \in RegisterOps /\ resp.status = 201) =>
    /\ compare(resp.body.password, users[resp.id].password)
    /\ ENABLED LoginSucceeds(resp.body)

\* Update bodies that carry a views key; validateBlogUpdate
\* (part_002:195-245) has no rule for it and drops no key.
CounterBodies ==
  { [EmptyBody EXCEPT !.fields = {"views"}, !.views = n] : n \in 0..MaxViews }
    \cup
  { [EmptyBody EXCEPT !.fields = {"title", "views"}, !.title = "t2",
                      !.views = n] : n \in 0..MaxViews }

\* One published post that is read and updated, one request at a time.
NextCounters ==
  \/ CreateRequest(OnePost, Writers, PublishedBodies)
       /\ UNCHANGED <<lastLike, mounted>>
  \/ ReadRequest(OnePost) /\ UNCHANGED <<lastLike, mounted>>
  \/ UpdateRequest(OnePost, CounterBodies) /\ UNCHANGED <<lastLike, mounted>>
  \/ Tick /\ UNCHANGED <<lastLike, mounted>>

SpecCounters == Init /\ [][NextCounters]_vars

\* C29: an update of a post, whatever its body carries, leaves the post's
\* views and likes as they were, and the views of a stored post never
\* decrease.
C29_UpdateKeepsCounters ==
  /\ [][ resp'.op \in UpdateOps =>
           /\ blogs'[resp'.id].views = blogs[resp'.id].views
           /\ blogs'[resp'.id].likes = blogs[resp'.id].likes ]_vars
  /\ [][ \A b \in BlogIds :
           (blogs[b].life = "live" /\ blogs'[b].life = "live") =>
             blogs'[b].views >= blogs[b].views ]_vars

\* C30: a comment's edited flag becomes true only by a successful update of
\* that comment: a create stores it false, and a like or a soft delete does
\* not set it.
C30_EditedOnlyByUpdate ==
  [][ \A c \in CommentIds :
        (comments'[c].isEdited /\ ~comments[c].isEdited) =>
          /\ resp'.op = "updateComment"
          /\ resp'.status = 200
          /\ resp'.id = c ]_vars

====
